---- MODULE Spec2Model ----
(***************************************************************************)
(* CodeScribe: the webhook receiver (ingestion_service/main.py), the two   *)
(* Redis lists it feeds, and the worker loop (worker/main.py) that         *)
(* consumes them.                                                          *)
(*                                                                         *)
(* A Redis list is a sequence whose index 1 is the left end: LPUSH         *)
(* prepends, BRPOP removes the last element.                               *)
(***************************************************************************)
EXTENDS Integers, Sequences, FiniteSets, TLC

VARIABLES
    queues,                 \* the two Redis lists, by name
    brokerUp,               \* whether the Redis server is reachable now
    GITHUB_WEBHOOK_SECRET,  \* receiver configuration (0 = not configured)
    redis_client,           \* the receiver's module-level client, or "None"
    request,                \* the last request the receiver handled
    response,               \* the HTTP response it gave
    pc,                     \* each worker's position in process_jobs
    locals,                 \* each worker's (queue_name, job_json) locals
    inflight,               \* history: the record popped in this iteration
    watch,                  \* history: the orchestrator calls for one record
    failed,                 \* history: some worker iteration raised
    nextId,                 \* history: ids handed to the records enqueued
    foreign,                \* history: records pushed by other clients
    outages,                \* history: times the broker became unreachable
    suggestions,            \* what review_chain.invoke returned
    review_body             \* the comment body handle_pr_review posted

renderVars == <<suggestions, review_body>>

vars == <<queues, brokerUp, GITHUB_WEBHOOK_SECRET, redis_client, request, response,
          pc, locals, inflight, watch, failed, nextId, foreign, outages, renderVars>>

receiverVars == <<GITHUB_WEBHOOK_SECRET, redis_client, request, response>>
workerVars == <<pc, locals, inflight, watch, failed>>

(***************************************************************************)
(* Bounds of the model.                                                    *)
(***************************************************************************)
MaxJobs == 2        \* records the receiver enqueues in one run
MaxForeign == 1     \* records pushed by clients other than the receiver
MaxOutages == 1     \* times the broker becomes unreachable in one run
MaxSuggestions == 3 \* suggestions the review chain returns for one job

(***************************************************************************)
(* Configuration.                                                          *)
(***************************************************************************)
JOB_QUEUE_NAME == "pr_review_jobs"
REPLY_QUEUE_NAME == "pr_reply_jobs"
BOT_NAME == "codescribe-mordris[bot]"
Workers == {"w1", "w2"}     \* worker processes that may be started
Dispatcher == {"w1"}        \* the one that runs when a single worker is deployed
QueueNames == {JOB_QUEUE_NAME, REPLY_QUEUE_NAME}
NoSecret == 0          \* os.getenv("WEBHOOK_SECRET") unset or empty
ConfiguredSecret == 3
SenderKeys == {ConfiguredSecret, ConfiguredSecret + 2}

Min(a, b) == IF a < b THEN a ELSE b

(***************************************************************************)
(* json.dumps / json.loads.  A serialized record is a sequence of tokens   *)
(* "{" k1 v1 ... kn vn "}".  A decoded dict is the sequence of its         *)
(* (key, value) pairs in insertion order, each key once.                   *)
(***************************************************************************)
json_dumps(d) ==
    LET RECURSIVE body(_)
        body(s) == IF s = <<>> THEN <<>>
                   ELSE <<s[1][1], s[1][2]>> \o body(Tail(s))
    IN <<"{">> \o body(d) \o <<"}">>

JsonValid(raw) ==
    /\ Len(raw) >= 2
    /\ raw[1] = "{"
    /\ raw[Len(raw)] = "}"
    /\ (Len(raw) - 2) % 2 = 0
    /\ \A i \in 2..(Len(raw) - 1) : raw[i] \notin {"{", "}"}

\* dict semantics: a repeated key keeps its first position and its last value
DictSet(d, k, v) ==
    IF \E i \in 1..Len(d) : d[i][1] = k
    THEN [i \in 1..Len(d) |-> IF d[i][1] = k THEN <<k, v>> ELSE d[i]]
    ELSE Append(d, <<k, v>>)

json_loads(raw) ==
    LET n == (Len(raw) - 2) \div 2
        RECURSIVE build(_, _)
        build(i, d) == IF i > n THEN d
                       ELSE build(i + 1, DictSet(d, raw[2 * i], raw[2 * i + 1]))
    IN build(1, <<>>)

HasKey(d, k) == \E i \in 1..Len(d) : d[i][1] = k
Get(d, k) == LET i == CHOOSE j \in 1..Len(d) : d[j][1] = k IN d[i][2]

(***************************************************************************)
(* Webhook requests.  A body is the JSON payload GitHub sends: its action, *)
(* the set of payload paths it carries, and the values at those paths.     *)
(***************************************************************************)
Events == {"pull_request", "issue_comment", "push"}
Actions == {"opened", "synchronize", "created", "closed"}
PrNumbers == {"42", "43"}
Logins == {BOT_NAME, "alice"}
Repo == "acme/widgets"
Installation == "7"
CommentText == "please explain"

PullRequestPaths ==
    {"repository.full_name", "pull_request.number", "installation.id"}
IssueCommentPaths ==
    {"repository.full_name", "installation.id", "issue", "issue.number",
     "issue.pull_request", "comment.body", "comment.user.login"}

\* a payload without the object at p carries nothing below p either
Drop(paths, p) ==
    IF p = "issue"
    THEN paths \ {"issue", "issue.number", "issue.pull_request"}
    ELSE paths \ {p}

CompleteBodies ==
    [action : Actions, has : {PullRequestPaths},
     pr : PrNumbers, login : {"alice"}]
    \cup [action : Actions, has : {IssueCommentPaths},
          pr : {"42"}, login : Logins]
    \cup [action : Actions, has : {Drop(IssueCommentPaths, "issue.pull_request")},
          pr : {"42"}, login : {"alice"}]

\* payloads of either event type with one object or field missing
MalformedBodies ==
    [action : {"opened", "created"},
     has : {Drop(PullRequestPaths, p) : p \in PullRequestPaths}
           \cup {Drop(IssueCommentPaths, p) :
                     p \in IssueCommentPaths \ {"issue.pull_request"}},
     pr : {"42"}, login : {"alice"}]

Bodies == CompleteBodies \cup MalformedBodies

ReferenceBodies ==
    {[action |-> "opened", has |-> PullRequestPaths, pr |-> "42", login |-> "alice"],
     [action |-> "created", has |-> IssueCommentPaths, pr |-> "42", login |-> "alice"]}

(***************************************************************************)
(* hmac.new(key, body, sha256).hexdigest(), on the small domain of the     *)
(* model: a keyed digest of the body's bytes, written as two hex digits.   *)
(***************************************************************************)
ActionCode(a) ==
    CASE a = "opened" -> 1 [] a = "synchronize" -> 2
      [] a = "created" -> 3 [] OTHER -> 4

BodyCode(b) ==
    ActionCode(b.action) + 5 * Cardinality(b.has)
    + (IF b.pr = "42" THEN 0 ELSE 41) + (IF b.login = BOT_NAME THEN 83 ELSE 0)
    + (IF "issue" \in b.has THEN 19 ELSE 0)

Hmac(key, body) == (key * 37 + BodyCode(body) * 11) % 256

HexDigits ==
    <<"0", "1", "2", "3", "4", "5", "6", "7",
      "8", "9", "a", "b", "c", "d", "e", "f">>

hexdigest(n) == <<HexDigits[(n \div 16) + 1], HexDigits[(n % 16) + 1]>>

\* the X-Hub-Signature-256 header, as tokens; <<>> is "no such header"
Sign(key, body) == <<"sha256", "=">> \o hexdigest(Hmac(key, body))

Headers(body) ==
    {<<>>}
    \cup {Sign(k, body) : k \in SenderKeys}
    \cup {<<"sha1", "=">> \o hexdigest(Hmac(ConfiguredSecret, body)),
          <<"sha256">> \o hexdigest(Hmac(ConfiguredSecret, body)),
          <<"=">> \o hexdigest(Hmac(ConfiguredSecret, body)),
          <<"sha256", "=", "=">> \o hexdigest(Hmac(ConfiguredSecret, body)),
          <<"sha256", "=", HexDigits[1]>>}

\* signed deliveries of every complete payload under every event type, of
\* every malformed payload under the two routed event types, and every
\* kind of header on two reference payloads
Requests ==
    {[event |-> e, body |-> b, header |-> Sign(ConfiguredSecret, b)] :
        e \in Events, b \in CompleteBodies}
    \cup {[event |-> e, body |-> b, header |-> Sign(ConfiguredSecret, b)] :
             e \in {"pull_request", "issue_comment"}, b \in MalformedBodies}
    \cup UNION {{[event |-> "pull_request", body |-> b, header |-> h] :
                    h \in Headers(b)} : b \in ReferenceBodies}

NoRequest ==
    [event |-> "none", header |-> <<>>,
     body |-> [action |-> "none", has |-> {}, pr |-> "", login |-> ""]]

(***************************************************************************)
(* HTTP responses.                                                         *)
(***************************************************************************)
Http(code, status, message) ==
    [code |-> code, status |-> status, message |-> message]

NoResponse == Http(0, "", "")
Verified == Http(0, "", "verified")
MissingSignature == Http(403, "", "Missing signature")
UnsupportedAlgorithm == Http(400, "", "Unsupported signature algorithm")
InvalidSignature == Http(403, "", "Invalid signature")
RedisFailed == Http(503, "", "Redis connection failed")
InternalServerError == Http(500, "", "Internal Server Error")
JobQueued == Http(200, "success", "Job queued for PR")
ReplyQueued == Http(200, "success", "Reply job queued")
Malformed == Http(200, "error", "Malformed payload")
NotProcessed == Http(200, "success", "Event received but not processed")

(***************************************************************************)
(* verify_signature                                                        *)
(***************************************************************************)
\* str.split('=', 1): the tokens before and after the first "="
SplitAt(header) == CHOOSE i \in 1..Len(header) :
    /\ header[i] = "="
    /\ \A j \in 1..(i - 1) : header[j] # "="

HasSeparator(header) == \E i \in 1..Len(header) : header[i] = "="

verify_signature(secret, req) ==
    IF secret = NoSecret THEN Verified
    ELSE IF req.header = <<>> THEN MissingSignature
    ELSE IF ~HasSeparator(req.header) THEN InternalServerError  \* ValueError
    ELSE LET i == SplitAt(req.header)
             hash_algorithm == SubSeq(req.header, 1, i - 1)
             signature == SubSeq(req.header, i + 1, Len(req.header))
             expected_signature == hexdigest(Hmac(secret, req.body))
         IN IF hash_algorithm # <<"sha256">> THEN UnsupportedAlgorithm
            ELSE IF expected_signature # signature THEN InvalidSignature
            ELSE Verified

(***************************************************************************)
(* The Redis lists.  An element carries the serialized record and, as      *)
(* history, the id it got when first pushed, the ids that were waiting in  *)
(* the list when it was last pushed back, and whether there were any.      *)
(***************************************************************************)
Element(id, raw) == [id |-> id, raw |-> raw, ahead |-> {}, behind |-> FALSE]

IdsIn(list) == {list[i].id : i \in 1..Len(list)}

RedisLPush(list, e) == <<e>> \o list
RedisRPopIndex(list) == Len(list)

Ids == 1..(MaxJobs + MaxForeign)
Enqueued == nextId - 1 - foreign      \* records enqueued by the receiver

(***************************************************************************)
(* github_webhook: event routing                                           *)
(***************************************************************************)
ReviewJob(payload) ==
    <<<<"event_type", "pull_request">>,
      <<"repo_full_name", Repo>>,
      <<"pr_number", payload.pr>>,
      <<"installation_id", Installation>>>>

ReplyJob(payload) ==
    <<<<"event_type", "issue_comment">>,
      <<"repo_full_name", Repo>>,
      <<"pr_number", payload.pr>>,
      <<"installation_id", Installation>>,
      <<"comment_body", CommentText>>,
      <<"commenter_login", payload.login>>>>

ReviewPaths == {"repository.full_name", "pull_request.number", "installation.id"}
ReplyPaths == {"repository.full_name", "issue.number", "installation.id",
               "comment.body", "comment.user.login"}

\* Route, were the pull_request marker on the issue not looked at
RouteAnyComment(req) ==
    IF req.event = "pull_request"
    THEN IF req.body.action \in {"opened", "synchronize"} THEN "review" ELSE "none"
    ELSE IF req.event = "issue_comment" /\ req.body.action = "created"
    THEN IF "issue" \notin req.body.has THEN "KeyError" ELSE "reply"
    ELSE "none"

\* which branch of the routing the request takes
Route(req) ==
    IF req.event = "pull_request"
    THEN IF req.body.action \in {"opened", "synchronize"} THEN "review" ELSE "none"
    ELSE IF req.event = "issue_comment"
    THEN IF req.body.action = "created"
         THEN IF "issue" \notin req.body.has THEN "KeyError"
              ELSE IF "issue.pull_request" \in req.body.has THEN "reply"
              ELSE "none"
         ELSE "none"
    ELSE "none"

\* RaisesKeyError, were the installation id read with .get()
RaisesKeyErrorLenient(req) ==
    \/ Route(req) = "KeyError"
    \/ Route(req) = "review"
       /\ ~(ReviewPaths \ {"installation.id"} \subseteq req.body.has)
    \/ Route(req) = "reply"
       /\ ~(ReplyPaths \ {"installation.id"} \subseteq req.body.has)

\* a payload[...] lookup of the selected branch raises KeyError
RaisesKeyError(req) ==
    \/ Route(req) = "KeyError"
    \/ Route(req) = "review" /\ ~(ReviewPaths \subseteq req.body.has)
    \/ Route(req) = "reply" /\ ~(ReplyPaths \subseteq req.body.has)

\* EnqueuedList, were the receiver to use rpush
EnqueuedAtRight(list, e) == Append(list, e)

EnqueuedList(list, e) == RedisLPush(list, e)

WebhookResponse(req) ==
    LET verdict == verify_signature(GITHUB_WEBHOOK_SECRET, req)
    IN IF verdict # Verified THEN verdict
       ELSE IF redis_client = "None" THEN RedisFailed
       ELSE IF RaisesKeyError(req) THEN Malformed
       ELSE IF Route(req) = "none" THEN NotProcessed
       ELSE IF ~brokerUp THEN InternalServerError  \* redis ConnectionError
       ELSE IF Route(req) = "review" THEN JobQueued
       ELSE ReplyQueued

github_webhook(req) ==
    LET answer == WebhookResponse(req)
        target == IF answer = JobQueued THEN JOB_QUEUE_NAME ELSE REPLY_QUEUE_NAME
        job_data == IF answer = JobQueued THEN ReviewJob(req.body)
                    ELSE ReplyJob(req.body)
    IN /\ request' = req
       /\ response' = answer
       /\ IF answer \in {JobQueued, ReplyQueued}
          THEN /\ Enqueued < MaxJobs
               /\ queues' = [queues EXCEPT ![target] =
                      EnqueuedList(@, Element(nextId, json_dumps(job_data)))]
               /\ nextId' = nextId + 1
          ELSE UNCHANGED <<queues, nextId>>
       /\ UNCHANGED <<brokerUp, GITHUB_WEBHOOK_SECRET, redis_client,
                      workerVars, foreign, outages, renderVars>>

\* every kind of request, for the receiver on its own
Webhook == \E req \in Requests : github_webhook(req)

\* the signed, well-formed deliveries, for the receiver in front of the workers
Deliveries ==
    {r \in Requests :
        /\ r.header = Sign(ConfiguredSecret, r.body)
        /\ r.body \in CompleteBodies
        /\ r.body.pr = "42"
        /\ \/ /\ r.event = "pull_request"
              /\ r.body.action = "opened"
              /\ r.body.has = PullRequestPaths
           \/ /\ r.event = "issue_comment"
              /\ r.body.action = "created"
              /\ r.body.has = IssueCommentPaths}

\* (a delivery that finds the broker unreachable changes no queue)
Delivery == brokerUp /\ \E req \in Deliveries : github_webhook(req)

(***************************************************************************)
(* The environment: the broker going away and coming back, and another     *)
(* Redis client pushing a record the receiver did not write.               *)
(***************************************************************************)
BrokerFails ==
    /\ brokerUp
    /\ outages < MaxOutages
    /\ brokerUp' = FALSE
    /\ outages' = outages + 1
    /\ UNCHANGED <<queues, receiverVars, workerVars, nextId, foreign, renderVars>>

BrokerRecovers ==
    /\ ~brokerUp
    /\ brokerUp' = TRUE
    /\ UNCHANGED <<queues, receiverVars, workerVars, nextId, foreign, outages, renderVars>>

Garbage == <<"{", "event_type">>
DuplicateKey ==
    <<"{", "installation_id", "8", "repo_full_name", Repo, "pr_number", "42",
      "installation_id", Installation, "}">>
ForeignRecords == {Garbage, DuplicateKey}

ForeignPush ==
    /\ brokerUp
    /\ foreign < MaxForeign
    /\ \E q \in QueueNames, raw \in ForeignRecords :
           queues' = [queues EXCEPT ![q] = RedisLPush(@, Element(nextId, raw))]
    /\ nextId' = nextId + 1
    /\ foreign' = foreign + 1
    /\ UNCHANGED <<brokerUp, receiverVars, workerVars, outages, renderVars>>

(***************************************************************************)
(* process_jobs: the worker loop.  pc is "start" before the connection     *)
(* probe, "blocked" in brpop, "processing" between the pop and the end of  *)
(* the try block, "handler" in the except block before its lpush,          *)
(* "backoff" in time.sleep(5), and "exited" once process_jobs returned or  *)
(* an exception left it.                                                   *)
(***************************************************************************)
NoJob == <<>>
InFlight(q, e) == <<[queue_name |-> q, id |-> e.id, raw |-> e.raw,
                     ahead |-> e.ahead, behind |-> e.behind]>>
Local(q, e) == <<[queue_name |-> q, job_json |-> e.raw, id |-> e.id]>>

\* the history kept for the watched record: its first two orchestrator calls,
\* and whether a handler has completed it or loop prevention discarded it
Unwatched(id) == [id |-> id, queue |-> "none", calls |-> 0, first |-> "none",
                  second |-> "none", failer |-> "none", naps |-> 0,
                  between |-> FALSE, comments |-> 0, done |-> "no"]

Connect(w) ==
    /\ pc[w] = "start"
    /\ pc' = [pc EXCEPT ![w] = IF brokerUp THEN "blocked" ELSE "exited"]
    /\ UNCHANGED <<queues, brokerUp, receiverVars, locals, inflight, watch,
                   failed, nextId, foreign, outages, renderVars>>

\* FirstReady, were the keys given as [REPLY_QUEUE_NAME, JOB_QUEUE_NAME]
FirstReadyReplyQueue ==
    IF queues[REPLY_QUEUE_NAME] # <<>> THEN REPLY_QUEUE_NAME ELSE JOB_QUEUE_NAME

\* BRPOP serves the first non-empty key in the order given
FirstReady ==
    IF queues[JOB_QUEUE_NAME] # <<>> THEN JOB_QUEUE_NAME ELSE REPLY_QUEUE_NAME

Popped(list) == list[RedisRPopIndex(list)]

\* Remaining, were the pop to leave the element on the list
RemainingKept(list) == list

Remaining(list) ==
    LET k == RedisRPopIndex(list)
        rest == SubSeq(list, 1, k - 1) \o SubSeq(list, k + 1, Len(list))
    IN [i \in 1..Len(rest) |-> [rest[i] EXCEPT !.ahead = @ \ {list[k].id}]]

brpop(w) ==
    /\ pc[w] = "blocked"
    /\ brokerUp
    /\ queues[FirstReady] # <<>>
    /\ LET q == FirstReady
           e == Popped(queues[q])
       IN /\ queues' = [queues EXCEPT ![q] = Remaining(@)]
          /\ locals' = [locals EXCEPT ![w] = Local(q, e)]
          /\ inflight' = [inflight EXCEPT ![w] = @ \o InFlight(q, e)]
    /\ pc' = [pc EXCEPT ![w] = "processing"]
    /\ UNCHANGED <<brokerUp, receiverVars, watch, failed, nextId, foreign, outages, renderVars>>

\* create_comment is the last call of both handlers: a handler that raises
\* has posted nothing, one that returns has posted one comment
Posted(outcome) == IF outcome = "ok" THEN 1 ELSE 0

\* another iteration of worker w failed while the record it failed on waits
OtherFailure(w, h) ==
    IF h.calls = 1 /\ h.first = "raise" /\ h.failer = w
    THEN [h EXCEPT !.between = TRUE] ELSE h

\* the orchestrator was invoked for record id by worker w
Invoked(w, q, id, outcome, h) ==
    IF id # h.id
    THEN IF outcome = "raise" THEN OtherFailure(w, h) ELSE h
    ELSE LET settled == IF outcome = "ok" /\ h.done = "no" THEN "completed"
                        ELSE h.done
         IN IF h.calls >= 2 THEN [h EXCEPT !.done = settled]
            ELSE [h EXCEPT
                    !.queue = q,
                    !.calls = @ + 1,
                    !.first = IF h.calls = 0 THEN outcome ELSE @,
                    !.second = IF h.calls = 1 THEN outcome ELSE @,
                    !.failer = IF h.calls = 0 /\ outcome = "raise" THEN w ELSE @,
                    !.comments = @ + Posted(outcome),
                    !.done = settled]

\* the record id was dropped by the loop prevention
Discarded(id, h) ==
    IF id = h.id /\ h.done = "no" THEN [h EXCEPT !.done = "discarded"] ELSE h

brpop_raises(w) ==
    /\ pc[w] = "blocked"
    /\ ~brokerUp
    /\ pc' = [pc EXCEPT ![w] = "handler"]
    /\ watch' = OtherFailure(w, watch)
    /\ failed' = TRUE
    /\ UNCHANGED <<queues, brokerUp, receiverVars, locals, inflight,
                   nextId, foreign, outages, renderVars>>

\* every record a list can hold, and what json.loads makes of it
Records ==
    ForeignRecords
    \cup {json_dumps(ReviewJob(r.body)) : r \in Deliveries}
    \cup {json_dumps(ReplyJob(r.body)) : r \in Deliveries}

job_data == [job_json \in Records |-> json_loads(job_json)]

\* json.loads, job_data["installation_id"], job_data["commenter_login"]
RaisesBeforeHandler(queue_name, job_json) ==
    \/ ~JsonValid(job_json)
    \/ ~HasKey(job_data[job_json], "installation_id")
    \/ /\ queue_name = REPLY_QUEUE_NAME
       /\ ~HasKey(job_data[job_json], "commenter_login")

\* job_data["repo_full_name"], job_data["pr_number"] inside the handlers
HandlerKeyError(job_json) ==
    \/ ~HasKey(job_data[job_json], "repo_full_name")
    \/ ~HasKey(job_data[job_json], "pr_number")

OwnComment(queue_name, job_json) ==
    /\ queue_name = REPLY_QUEUE_NAME
    /\ Get(job_data[job_json], "commenter_login") = BOT_NAME

\* AfterSuccess, were time.sleep(5) in a finally block
AfterSuccessSleeps == "backoff"

AfterSuccess == "blocked"
AfterDiscard == "blocked"
\* AfterFailure, were the exception swallowed and the loop resumed at once
AfterFailureResumes == "blocked"

AfterFailure == "handler"

decode_raises(w) ==
    /\ pc[w] = "processing"
    /\ RaisesBeforeHandler(locals[w][1].queue_name, locals[w][1].job_json)
    /\ pc' = [pc EXCEPT ![w] = AfterFailure]
    /\ watch' = OtherFailure(w, watch)
    /\ failed' = TRUE
    /\ UNCHANGED <<queues, brokerUp, receiverVars, locals, inflight,
                   nextId, foreign, outages, renderVars>>

handle_pr_review(w, outcome) ==
    /\ pc[w] = "processing"
    /\ locals[w][1].queue_name = JOB_QUEUE_NAME
    /\ ~RaisesBeforeHandler(locals[w][1].queue_name, locals[w][1].job_json)
    /\ HandlerKeyError(locals[w][1].job_json) => outcome = "raise"
    /\ watch' = Invoked(w, locals[w][1].queue_name, locals[w][1].id, outcome, watch)
    /\ IF outcome = "ok"
       THEN /\ pc' = [pc EXCEPT ![w] = AfterSuccess]
            /\ inflight' = [inflight EXCEPT ![w] = NoJob]
            /\ UNCHANGED failed
       ELSE /\ pc' = [pc EXCEPT ![w] = AfterFailure]
            /\ failed' = TRUE
            /\ UNCHANGED inflight
    /\ UNCHANGED <<queues, brokerUp, receiverVars, locals, nextId, foreign, outages, renderVars>>

handle_comment_reply(w, outcome) ==
    /\ pc[w] = "processing"
    /\ locals[w][1].queue_name = REPLY_QUEUE_NAME
    /\ ~RaisesBeforeHandler(locals[w][1].queue_name, locals[w][1].job_json)
    /\ ~OwnComment(locals[w][1].queue_name, locals[w][1].job_json)
    /\ HandlerKeyError(locals[w][1].job_json) => outcome = "raise"
    /\ watch' = Invoked(w, locals[w][1].queue_name, locals[w][1].id, outcome, watch)
    /\ IF outcome = "ok"
       THEN /\ pc' = [pc EXCEPT ![w] = AfterSuccess]
            /\ inflight' = [inflight EXCEPT ![w] = NoJob]
            /\ UNCHANGED failed
       ELSE /\ pc' = [pc EXCEPT ![w] = AfterFailure]
            /\ failed' = TRUE
            /\ UNCHANGED inflight
    /\ UNCHANGED <<queues, brokerUp, receiverVars, locals, nextId, foreign, outages, renderVars>>

ignore_own_comment(w) ==
    /\ pc[w] = "processing"
    /\ ~RaisesBeforeHandler(locals[w][1].queue_name, locals[w][1].job_json)
    /\ OwnComment(locals[w][1].queue_name, locals[w][1].job_json)
    /\ pc' = [pc EXCEPT ![w] = AfterDiscard]
    /\ inflight' = [inflight EXCEPT ![w] = NoJob]
    /\ watch' = Discarded(locals[w][1].id, watch)
    /\ UNCHANGED <<queues, brokerUp, receiverVars, locals, failed,
                   nextId, foreign, outages, renderVars>>

\* RequeuedRecord, were the decoded job serialized again
RequeuedRecordReencoded(w) == json_dumps(json_loads(locals[w][1].job_json))

\* what the except block hands to lpush: the locals, whatever iteration set them
RequeuedRecord(w) == locals[w][1].job_json

\* RequeuedQueue, were every failed record pushed to JOB_QUEUE_NAME
RequeuedOnReviewQueue(w) == JOB_QUEUE_NAME

RequeuedQueue(w) == locals[w][1].queue_name

\* RequeuedList, were the except block to use rpush
RequeuedAtRight(list, e) == Append(list, e)

RequeuedList(list, e) == RedisLPush(list, e)

Requeued(w, list) ==
    RequeuedList(list, [id |-> locals[w][1].id,
                        raw |-> RequeuedRecord(w),
                        ahead |-> IdsIn(list) \ {locals[w][1].id},
                        behind |-> IdsIn(list) \ {locals[w][1].id} # {}])

HasLocals(w) == locals[w] # NoJob

except_handler(w) ==
    /\ pc[w] = "handler"
    /\ IF HasLocals(w)
       THEN IF brokerUp
            THEN /\ queues' = [queues EXCEPT ![RequeuedQueue(w)] = Requeued(w, @)]
                 /\ pc' = [pc EXCEPT ![w] = "backoff"]
            ELSE /\ pc' = [pc EXCEPT ![w] = "exited"]   \* lpush raises
                 /\ UNCHANGED queues
       ELSE /\ pc' = [pc EXCEPT ![w] = "backoff"]
            /\ UNCHANGED queues
    /\ inflight' = [inflight EXCEPT ![w] = NoJob]
    /\ UNCHANGED <<brokerUp, receiverVars, locals, watch, failed, nextId, foreign, outages, renderVars>>

\* time.sleep(5) returns
Slept(w, h) ==
    IF h.calls = 1 /\ h.first = "raise" /\ h.failer = w
    THEN [h EXCEPT !.naps = Min(@ + 1, 2)] ELSE h

sleep_returns(w) ==
    /\ pc[w] = "backoff"
    /\ pc' = [pc EXCEPT ![w] = "blocked"]
    /\ watch' = Slept(w, watch)
    /\ UNCHANGED <<queues, brokerUp, receiverVars, locals, inflight, failed,
                   nextId, foreign, outages, renderVars>>

(***************************************************************************)
(* handle_pr_review: rendering the review comment.  A text is the sequence *)
(* of its pieces; suggestions and review_body are <<>> until the chain has *)
(* answered and the comment has been posted, and <<value>> afterwards.     *)
(***************************************************************************)
NotInvoked == <<>>
NoBody == <<>>

Descriptions == {"use snake_case", "add a docstring"}
Codes == {"def f(): pass", "x = 1"}
Suggestion == [description : Descriptions, suggestion : Codes]

RECURSIVE ListsUpTo(_)
ListsUpTo(n) ==
    IF n = 0 THEN {<<>>}
    ELSE LET shorter == ListsUpTo(n - 1)
         IN shorter \cup {Append(l, x) : l \in {k \in shorter : Len(k) = n - 1},
                                         x \in Suggestion}

SuggestionLists == ListsUpTo(MaxSuggestions)

ApprovalSentence ==
    <<"Great work! I analyzed the code and it adheres to all our project's coding standards.">>
ImprovementHeader ==
    <<"I've identified the following areas for improvement based on our coding standards:">>

DecimalDigits == <<"0", "1", "2", "3", "4", "5", "6", "7", "8", "9">>

\* str(n) for n >= 0
RECURSIVE str(_)
str(n) ==
    IF n < 10 THEN <<DecimalDigits[n + 1]>>
    ELSE str(n \div 10) \o <<DecimalDigits[(n % 10) + 1]>>

\* EntryNumber, were the index of enumerate() printed as it is
EntryNumberZeroBased(i) == str(i)

\* {i+1} for the index i that enumerate() yields, counting from 0
EntryNumber(i) == str(i + 1)

\* f"\n**{i+1}. {suggestion.description}**\n"
DescriptionPart(i, suggestion) ==
    <<"\n", "**">> \o EntryNumber(i) \o <<". ", suggestion.description, "**", "\n">>

\* the three backquotes that open and close a fenced block
Fence == "[fence]"

\* f"[fence]suggestion\n{suggestion.suggestion}\n[fence]"
SuggestionPart(suggestion) ==
    <<Fence, "suggestion", "\n", suggestion.suggestion, "\n", Fence>>

\* the list the for loop leaves in comment_parts
comment_parts(list) ==
    LET RECURSIVE loop(_, _)
        loop(i, parts) ==
            IF i >= Len(list) THEN parts
            ELSE loop(i + 1, parts \o <<DescriptionPart(i, list[i + 1]),
                                        SuggestionPart(list[i + 1])>>)
    IN loop(0, <<ImprovementHeader>>)

\* "\n".join(parts)
RECURSIVE Join(_)
Join(parts) ==
    IF Len(parts) = 1 THEN parts[1]
    ELSE parts[1] \o <<"\n">> \o Join(Tail(parts))

RenderedBody(list) ==
    IF list = <<>> THEN ApprovalSentence ELSE Join(comment_parts(list))

\* suggestions = review_chain.invoke(...)
review_chain_invoke ==
    /\ suggestions = NotInvoked
    /\ \E list \in SuggestionLists : suggestions' = <<list>>
    /\ UNCHANGED <<queues, brokerUp, receiverVars, workerVars, nextId, foreign,
                   outages, review_body>>

\* review_body is built and handed to create_comment
create_comment ==
    /\ suggestions # NotInvoked
    /\ review_body = NoBody
    /\ review_body' = <<RenderedBody(suggestions[1])>>
    /\ UNCHANGED <<queues, brokerUp, receiverVars, workerVars, nextId, foreign,
                   outages, suggestions>>

(***************************************************************************)
(* The system.                                                             *)
(***************************************************************************)
Init ==
    /\ queues = [q \in QueueNames |-> <<>>]
    /\ brokerUp = TRUE
    /\ GITHUB_WEBHOOK_SECRET = ConfiguredSecret
    /\ redis_client = IF brokerUp THEN "Redis" ELSE "None"
    /\ request = NoRequest
    /\ response = NoResponse
    /\ pc = [w \in Workers |-> "start"]
    /\ locals = [w \in Workers |-> NoJob]
    /\ inflight = [w \in Workers |-> NoJob]
    /\ watch \in {Unwatched(i) : i \in Ids}
    /\ failed = FALSE
    /\ nextId = 1
    /\ foreign = 0
    /\ outages = 0
    /\ suggestions = NotInvoked
    /\ review_body = NoBody

Next ==
    \/ Delivery
    \/ BrokerFails
    \/ BrokerRecovers
    \/ ForeignPush
    \/ \E w \in Dispatcher : Connect(w)
    \/ \E w \in Dispatcher : brpop(w)
    \/ \E w \in Dispatcher : brpop_raises(w)
    \/ \E w \in Dispatcher : decode_raises(w)
    \/ \E w \in Dispatcher : handle_pr_review(w, "ok")
    \/ \E w \in Dispatcher : handle_pr_review(w, "raise")
    \/ \E w \in Dispatcher : handle_comment_reply(w, "ok")
    \/ \E w \in Dispatcher : handle_comment_reply(w, "raise")
    \/ \E w \in Dispatcher : ignore_own_comment(w)
    \/ \E w \in Dispatcher : except_handler(w)
    \/ \E w \in Dispatcher : sleep_returns(w)

\* the receiver, the broker and one worker
Spec == Init /\ [][Next]_vars

(***************************************************************************)
(* The same system while the broker stays reachable, with the worker       *)
(* process scheduled: a step of the loop that can be taken is taken (every *)
(* call the loop makes returns or raises).                                 *)
(***************************************************************************)
WorkerStep(w) ==
    \/ Connect(w)
    \/ brpop(w)
    \/ decode_raises(w)
    \/ handle_pr_review(w, "ok")
    \/ handle_pr_review(w, "raise")
    \/ handle_comment_reply(w, "ok")
    \/ handle_comment_reply(w, "raise")
    \/ ignore_own_comment(w)
    \/ except_handler(w)
    \/ sleep_returns(w)

NextLive ==
    \/ Delivery
    \/ ForeignPush
    \/ \E w \in Dispatcher : WorkerStep(w)

SpecLive == Init /\ [][NextLive]_vars /\ \A w \in Dispatcher : WF_vars(WorkerStep(w))

(***************************************************************************)
(* Horizontal scaling: the receiver and several worker processes on the    *)
(* same two lists, no other producer, the broker reachable throughout.     *)
(* Every record is one the receiver wrote with json.dumps, so json.loads   *)
(* and the key lookups before the handler call do not raise.               *)
(***************************************************************************)
PoolStep(w) ==
    \/ Connect(w)
    \/ brpop(w)
    \/ handle_pr_review(w, "ok")
    \/ handle_pr_review(w, "raise")
    \/ handle_comment_reply(w, "ok")
    \/ handle_comment_reply(w, "raise")
    \/ ignore_own_comment(w)
    \/ except_handler(w)
    \/ sleep_returns(w)

NextPool ==
    \/ Delivery
    \/ \E w \in Workers : PoolStep(w)

SpecPool == Init /\ [][NextPool]_vars

(***************************************************************************)
(* The receiver on its own: every kind of request, with or without a       *)
(* configured secret, no worker running.                                   *)
(***************************************************************************)
InitIngest ==
    /\ queues = [q \in QueueNames |-> <<>>]
    /\ brokerUp \in BOOLEAN
    /\ GITHUB_WEBHOOK_SECRET \in {NoSecret, ConfiguredSecret}
    /\ redis_client = IF brokerUp THEN "Redis" ELSE "None"
    /\ request = NoRequest
    /\ response = NoResponse
    /\ pc = [w \in Workers |-> "start"]
    /\ locals = [w \in Workers |-> NoJob]
    /\ inflight = [w \in Workers |-> NoJob]
    /\ watch = Unwatched(1)
    /\ failed = FALSE
    /\ nextId = 1
    /\ foreign = 0
    /\ outages = 0
    /\ suggestions = NotInvoked
    /\ review_body = NoBody

NextIngest ==
    \/ Webhook
    \/ BrokerFails
    \/ BrokerRecovers

SpecIngest == InitIngest /\ [][NextIngest]_vars

(***************************************************************************)
(* The review handler from the chain's answer to the posted comment.       *)
(***************************************************************************)
NextRender ==
    \/ review_chain_invoke
    \/ create_comment

InitRender ==
    /\ queues = [q \in QueueNames |-> <<>>]
    /\ brokerUp = TRUE
    /\ GITHUB_WEBHOOK_SECRET = ConfiguredSecret
    /\ redis_client = "Redis"
    /\ request = NoRequest
    /\ response = NoResponse
    /\ pc = [w \in Workers |-> "processing"]
    /\ locals = [w \in Workers |-> NoJob]
    /\ inflight = [w \in Workers |-> NoJob]
    /\ watch = Unwatched(1)
    /\ failed = FALSE
    /\ nextId = 1
    /\ foreign = 0
    /\ outages = 0
    /\ suggestions = NotInvoked
    /\ review_body = NoBody

SpecRender == InitRender /\ [][NextRender]_vars

(***************************************************************************)
(* What the claims speak about.                                            *)
(***************************************************************************)
\* worker w leaves the except block in this step
LeavesHandler(w) == pc[w] = "handler" /\ pc'[w] # "handler"

\* worker w leaves the try block in this step
LeavesTry(w) == pc[w] = "processing" /\ pc'[w] # "processing"

\* worker w's brpop returns in this step
Pops(w) == pc[w] = "blocked" /\ pc'[w] = "processing"

\* a reply job written by the bot itself
IsOwnComment(queue_name, raw) ==
    /\ queue_name = REPLY_QUEUE_NAME
    /\ \E i \in 1..Len(raw) - 1 :
           i % 2 = 0 /\ raw[i] = "commenter_login" /\ raw[i + 1] = BOT_NAME

\* the list gained exactly element e at its left end
PushedLeft(before, after, id, raw) ==
    /\ Len(after) = Len(before) + 1
    /\ after[1].id = id
    /\ after[1].raw = raw
    /\ \A i \in 1..Len(before) : after[i + 1].id = before[i].id
                                 /\ after[i + 1].raw = before[i].raw

SameRecords(before, after) ==
    /\ Len(after) = Len(before)
    /\ \A i \in 1..Len(before) : after[i].id = before[i].id
                                 /\ after[i].raw = before[i].raw

QueuesUntouched ==
    \A q \in QueueNames : SameRecords(queues[q], queues'[q])

(***************************************************************************)
(* C1.  Loop prevention: a record popped from the reply queue whose        *)
(* commenter_login is the bot's is never handed to handle_comment_reply    *)
(* and never pushed back onto a queue; the worker drops it and blocks on   *)
(* the queues again without backoff.                                       *)
(***************************************************************************)
C1_OwnCommentDropped ==
    [][\A w \in Workers :
          /\ (/\ LeavesTry(w)
              /\ IsOwnComment(inflight[w][1].queue_name, inflight[w][1].raw))
             => /\ pc'[w] = "blocked"
                /\ watch'.calls = watch.calls
                /\ QueuesUntouched
          /\ LeavesHandler(w)
             => \A q \in QueueNames :
                    Len(queues'[q]) > Len(queues[q])
                    => ~IsOwnComment(q, queues'[q][1].raw)]_vars

RetriedReview ==
    /\ watch.queue = JOB_QUEUE_NAME
    /\ watch.calls = 2
    /\ watch.first = "raise"
    /\ watch.second = "ok"

Handled ==
    /\ pc' = pc
    /\ brokerUp' = brokerUp
    /\ foreign' = foreign
    /\ request' # NoRequest
    /\ request' # request \/ response' # response \/ nextId' # nextId

CarriesValidSignature(req) ==
    /\ Len(req.header) = 4
    /\ req.header[1] = "sha256"
    /\ req.header[2] = "="
    /\ <<req.header[3], req.header[4]>>
           = hexdigest(Hmac(GITHUB_WEBHOOK_SECRET, req.body))

PassesGate(req) ==
    GITHUB_WEBHOOK_SECRET = NoSecret \/ CarriesValidSignature(req)

IsReviewEvent(req) ==
    req.event = "pull_request" /\ req.body.action \in {"opened", "synchronize"}

IsReplyEvent(req) ==
    /\ req.event = "issue_comment"
    /\ req.body.action = "created"
    /\ "issue.pull_request" \in req.body.has

LacksField(req) ==
    \/ IsReviewEvent(req)
       /\ \E p \in {"repository.full_name", "pull_request.number",
                    "installation.id"} : p \notin req.body.has
    \/ IsReplyEvent(req)
       /\ \E p \in {"repository.full_name", "issue.number", "installation.id",
                    "comment.body", "comment.user.login"} : p \notin req.body.has

ProducesJob(req) ==
    (IsReviewEvent(req) \/ IsReplyEvent(req)) /\ ~LacksField(req)

\* the payload is the one GitHub sends for this event type, complete
WellFormed(req) ==
    /\ req.event = "pull_request"
       => \A p \in {"repository.full_name", "pull_request.number",
                    "installation.id"} : p \in req.body.has
    /\ req.event = "issue_comment"
       => \A p \in {"repository.full_name", "issue", "issue.number",
                    "installation.id", "comment.body", "comment.user.login"} :
              p \in req.body.has

ReviewRecordOf(req) ==
    <<"{", "event_type", "pull_request", "repo_full_name", "acme/widgets",
      "pr_number", req.body.pr, "installation_id", "7", "}">>

ReplyRecordOf(req) ==
    <<"{", "event_type", "issue_comment", "repo_full_name", "acme/widgets",
      "pr_number", req.body.pr, "installation_id", "7",
      "comment_body", "please explain", "commenter_login", req.body.login, "}">>

(***************************************************************************)
(* C4.  Signature gate: with a secret configured, a request gets past      *)
(* verification exactly when its header is sha256=<hex HMAC of the body>;  *)
(* every other request is rejected with an authentication error (4xx) and  *)
(* nothing is enqueued.                                                    *)
(***************************************************************************)
C4_SignatureGate ==
    [][(Handled /\ GITHUB_WEBHOOK_SECRET # NoSecret)
       => IF CarriesValidSignature(request')
          THEN response' \notin {MissingSignature, UnsupportedAlgorithm,
                                 InvalidSignature}
          ELSE /\ response'.code \in {400, 403}
               /\ QueuesUntouched]_vars

(***************************************************************************)
(* C5.  Classification: for a verified, complete payload handled while the *)
(* broker is reachable, pull_request with action opened or synchronize     *)
(* puts exactly one review record on the review queue, issue_comment with  *)
(* action created on an issue carrying the pull_request marker puts exactly*)
(* one reply record on the reply queue, and every other combination        *)
(* enqueues nothing and is answered "received but not processed".          *)
(***************************************************************************)
C5_Classification ==
    [][(/\ Handled
        /\ PassesGate(request')
        /\ WellFormed(request')
        /\ redis_client # "None"
        /\ brokerUp)
       => IF IsReviewEvent(request')
          THEN /\ PushedLeft(queues[JOB_QUEUE_NAME], queues'[JOB_QUEUE_NAME],
                             nextId, ReviewRecordOf(request'))
               /\ SameRecords(queues[REPLY_QUEUE_NAME], queues'[REPLY_QUEUE_NAME])
               /\ response'.code = 200 /\ response'.status = "success"
          ELSE IF IsReplyEvent(request')
          THEN /\ PushedLeft(queues[REPLY_QUEUE_NAME], queues'[REPLY_QUEUE_NAME],
                             nextId, ReplyRecordOf(request'))
               /\ SameRecords(queues[JOB_QUEUE_NAME], queues'[JOB_QUEUE_NAME])
               /\ response'.code = 200 /\ response'.status = "success"
          ELSE /\ QueuesUntouched
               /\ response' = NotProcessed]_vars

C5_Witness ==
    /\ IsReplyEvent(request)
    /\ request.body.login = BOT_NAME
    /\ response = ReplyQueued
    /\ Len(queues[REPLY_QUEUE_NAME]) = 1
    /\ Len(queues[JOB_QUEUE_NAME]) = 1
    /\ queues[REPLY_QUEUE_NAME][1].raw = ReplyRecordOf(request)

(***************************************************************************)
(* C6.  A verified payload selected for a job that lacks a required field  *)
(* is answered with HTTP 400.                                              *)
(***************************************************************************)
C6_MalformedIs400 ==
    [][(/\ Handled
        /\ PassesGate(request')
        /\ redis_client # "None"
        /\ LacksField(request'))
       => response'.code = 400]_vars

(***************************************************************************)
(* C7.  A verified payload selected for a job that lacks a required field  *)
(* puts nothing on either queue and is answered with the non-fatal error   *)
(* acknowledgment (HTTP 200, status "error").                              *)
(***************************************************************************)
C7_MalformedNotQueued ==
    [][(/\ Handled
        /\ PassesGate(request')
        /\ redis_client # "None"
        /\ LacksField(request'))
       => /\ QueuesUntouched
          /\ response'.code = 200
          /\ response'.status = "error"]_vars

C7_Witness ==
    /\ PassesGate(request)
    /\ IsReviewEvent(request)
    /\ "installation.id" \notin request.body.has
    /\ response = Malformed
    /\ \A q \in QueueNames : queues[q] = <<>>

(***************************************************************************)
(* C8.  Whenever the broker is unreachable when a verified job-producing   *)
(* request is handled, the answer is 503, and never a success without the  *)
(* job on a queue.                                                         *)
(***************************************************************************)
C8_Unavailable503 ==
    [][(/\ Handled
        /\ PassesGate(request')
        /\ ProducesJob(request')
        /\ ~brokerUp)
       => /\ response'.code = 503
          /\ QueuesUntouched]_vars

(***************************************************************************)
(* C9.  FIFO within one queue: as long as no worker iteration has failed,  *)
(* the record a pop returns was enqueued before every record still waiting *)
(* in that queue.                                                          *)
(***************************************************************************)
C9_Fifo ==
    [][\A w \in Workers :
          (Pops(w) /\ ~failed)
          => LET j == inflight'[w][1]
             IN \A i \in 1..Len(queues'[j.queue_name]) :
                    queues'[j.queue_name][i].id > j.id]_vars

C9_Witness ==
    \E w \in Workers :
        /\ ~failed
        /\ inflight[w] # NoJob
        /\ inflight[w][1].id = 1
        /\ queues[inflight[w][1].queue_name] # <<>>
        /\ queues[inflight[w][1].queue_name][1].id = 2

(***************************************************************************)
(* C10.  A record pushed back after a failure goes behind everything that  *)
(* is waiting in its queue: when it is popped again, every record that was *)
(* waiting there when it was pushed back has been popped before it.        *)
(***************************************************************************)
C10_RequeueBehindWaiting ==
    \A w \in Workers : inflight[w] # NoJob => inflight[w][1].ahead = {}

C10_Witness ==
    \E w \in Workers : inflight[w] # NoJob /\ inflight[w][1].behind

(***************************************************************************)
(* C11.  Unbounded retry: a record that is not valid JSON fails in every   *)
(* attempt, and after every attempt the except block has put it back on    *)
(* the queue it came from and the worker sleeps the backoff: the record is *)
(* never dropped.                                                          *)
(***************************************************************************)
C11_PoisonNeverDropped ==
    [][\A w \in Workers :
          (/\ LeavesHandler(w)
           /\ inflight[w] # NoJob
           /\ ~JsonValid(inflight[w][1].raw))
          => /\ pc'[w] = "backoff"
             /\ PushedLeft(queues[inflight[w][1].queue_name],
                           queues'[inflight[w][1].queue_name],
                           inflight[w][1].id, inflight[w][1].raw)]_vars

\* while the broker stays reachable, such a record on the review queue is
\* popped again and again
PoisonOnReviewQueue ==
    \E i \in 1..Len(queues[JOB_QUEUE_NAME]) :
        ~JsonValid(queues[JOB_QUEUE_NAME][i].raw)

PoisonInHand ==
    \E w \in Workers : inflight[w] # NoJob /\ ~JsonValid(inflight[w][1].raw)

C11_RetriedForever ==
    [](PoisonOnReviewQueue => []<>PoisonInHand)

(***************************************************************************)
(* C12.  The dispatcher is not starvation-free.  With the broker reachable *)
(* and the worker running, from the moment a record that fails in every    *)
(* attempt is in circulation on the review queue while a healthy reply job *)
(* waits on the reply queue, the failing record is popped again and again  *)
(* and the reply job waits forever: it is never popped.                    *)
(***************************************************************************)
PoisonCirculating ==
    \/ PoisonOnReviewQueue
    \/ \E w \in Workers : /\ inflight[w] # NoJob
                           /\ inflight[w][1].queue_name = JOB_QUEUE_NAME
                           /\ ~JsonValid(inflight[w][1].raw)

HealthyReplyWaiting(id) ==
    \E i \in 1..Len(queues[REPLY_QUEUE_NAME]) :
        /\ queues[REPLY_QUEUE_NAME][i].id = id
        /\ JsonValid(queues[REPLY_QUEUE_NAME][i].raw)
        /\ queues[REPLY_QUEUE_NAME][i].raw[3] = "issue_comment"
        /\ ~IsOwnComment(REPLY_QUEUE_NAME, queues[REPLY_QUEUE_NAME][i].raw)

C12_NotStarvationFree ==
    \A id \in Ids :
        []((PoisonCirculating /\ HealthyReplyWaiting(id))
           => ([]HealthyReplyWaiting(id) /\ []<>PoisonInHand))

C12_Witness ==
    /\ HealthyReplyWaiting(1)
    /\ PoisonOnReviewQueue
    /\ \E w \in Workers : /\ pc[w] = "backoff"
                           /\ locals[w] # NoJob
                           /\ locals[w][1].id = 2
                           /\ locals[w][1].queue_name = JOB_QUEUE_NAME
                           /\ ~JsonValid(locals[w][1].job_json)

(***************************************************************************)
(* Where the watched record is.                                            *)
(***************************************************************************)
WasEnqueued == watch.id < nextId

CopiesWaiting(q) ==
    Cardinality({i \in 1..Len(queues[q]) : queues[q][i].id = watch.id})

Holders ==
    {w \in Workers : \E i \in 1..Len(inflight[w]) : inflight[w][i].id = watch.id}

Gone ==
    /\ WasEnqueued
    /\ \A q \in QueueNames : CopiesWaiting(q) = 0
    /\ Holders = {}

(***************************************************************************)
(* C13.  Several workers on the same two queues, as claimed: in a run      *)
(* without failures a record is held by at most one worker and is not      *)
(* waiting while it is held, and every enqueued job has its orchestrator   *)
(* invoked exactly once in total across all workers.                       *)
(***************************************************************************)
C13_EveryJobInvokedOnce ==
    (~failed /\ WasEnqueued)
    => /\ CopiesWaiting(JOB_QUEUE_NAME) + CopiesWaiting(REPLY_QUEUE_NAME)
          + Cardinality(Holders) <= 1
       /\ watch.calls <= 1
       /\ Gone => watch.calls = 1

(***************************************************************************)
(* C13, amended.  ... every enqueued job that is not a comment written by  *)
(* the bot itself has its orchestrator invoked exactly once in total       *)
(* across all workers; a comment written by the bot is popped by exactly   *)
(* one worker and discarded without an invocation.                         *)
(***************************************************************************)
C13_OnePopOneInvocation ==
    (~failed /\ WasEnqueued)
    => /\ CopiesWaiting(JOB_QUEUE_NAME) + CopiesWaiting(REPLY_QUEUE_NAME)
          + Cardinality(Holders) <= 1
       /\ watch.calls <= 1
       /\ Gone => \/ watch.calls = 1 /\ watch.done = "completed"
                  \/ watch.calls = 0 /\ watch.done = "discarded"

C13_Witness ==
    /\ ~failed
    /\ watch.calls = 1
    /\ watch.done = "completed"
    /\ Gone
    /\ \E w \in Workers, v \in Workers :
           /\ w # v
           /\ locals[w] # NoJob
           /\ locals[w][1].id = watch.id
           /\ pc[w] = "blocked"
           /\ inflight[v] # NoJob
           /\ inflight[v][1].id # watch.id
           /\ inflight[v][1].queue_name = locals[w][1].queue_name

(***************************************************************************)
(* C14.  Suggestion rendering: for an empty suggestion list the posted     *)
(* body is the fixed approval sentence; for N >= 1 suggestions it is the   *)
(* header followed by N entries and nothing else, the i-th entry numbered  *)
(* i and holding the i-th suggestion's description and then a fenced       *)
(* suggestion block with the i-th suggestion's code.                       *)
(***************************************************************************)
EntryWidth == 15

EntryAt(body, i, suggestion) ==
    LET o == 1 + EntryWidth * (i - 1)
    IN /\ SubSeq(body, o + 1, o + 3) = <<"\n", "\n", "**">>
       /\ body[o + 4] = DecimalDigits[i + 1]
       /\ body[o + 5] = ". "
       /\ body[o + 6] = suggestion.description
       /\ SubSeq(body, o + 7, o + 9) = <<"**", "\n", "\n">>
       /\ SubSeq(body, o + 10, o + 12) = <<Fence, "suggestion", "\n">>
       /\ body[o + 13] = suggestion.suggestion
       /\ SubSeq(body, o + 14, o + 15) = <<"\n", Fence>>

C14_SuggestionRendering ==
    review_body # NoBody
    => LET list == suggestions[1]
           body == review_body[1]
       IN IF list = <<>>
          THEN body = ApprovalSentence
          ELSE /\ body[1] = ImprovementHeader[1]
               /\ Len(body) = 1 + EntryWidth * Len(list)
               /\ \A i \in 1..Len(list) : EntryAt(body, i, list[i])

C14_Witness ==
    /\ review_body # NoBody
    /\ Len(suggestions[1]) = 3
    /\ suggestions[1][1].description # suggestions[1][2].description
    /\ suggestions[1][2].suggestion # suggestions[1][3].suggestion
    /\ review_body[1][1 + EntryWidth * 2 + 4] = "3"

(***************************************************************************)
(* C15.  A record whose handler completed, or that loop prevention         *)
(* discarded, is never written back to a queue: a worker pushes a record   *)
(* only at the end of an iteration in which the handling of that record    *)
(* failed, and never after a failure of the dequeue itself.                *)
(***************************************************************************)
CopiesWaitingNext(q) ==
    Cardinality({i \in 1..Len(queues'[q]) : queues'[q][i].id = watch.id})

C15_SettledNeverRequeued ==
    [][/\ watch.done # "no"
          => \A q \in QueueNames : CopiesWaitingNext(q) <= CopiesWaiting(q)
       /\ \A w \in Workers :
             (LeavesHandler(w) /\ inflight[w] = NoJob) => QueuesUntouched]_vars

(***************************************************************************)
(* C16.  Once a worker has connected and entered its loop, the loop never  *)
(* exits: every exception of an iteration, a broker failure during the     *)
(* dequeue or during the push in the except block included, is contained,  *)
(* and the worker sleeps the backoff and blocks on the queues again.       *)
(***************************************************************************)
InLoop(w) == pc[w] \in {"blocked", "processing", "handler", "backoff"}

C16_LoopNeverExits ==
    [][\A w \in Workers :
          /\ InLoop(w) => pc'[w] # "exited"
          /\ LeavesHandler(w) => pc'[w] = "backoff"
          /\ (pc[w] = "backoff" /\ pc'[w] # "backoff") => pc'[w] = "blocked"]_vars

(***************************************************************************)
(* C17.  Job conservation: while no broker operation fails and no worker   *)
(* is killed, a record the receiver enqueued is in exactly one place:      *)
(* waiting, as one copy, on the queue it was enqueued on; in flight in     *)
(* exactly one worker; completed by a handler; or discarded by loop        *)
(* prevention.                                                             *)
(***************************************************************************)
\* the queue the receiver put the watched record on
HomeQueue ==
    IF \E q \in QueueNames : \E i \in 1..Len(queues[q]) :
           queues[q][i].id = watch.id /\ queues[q][i].raw[3] = "pull_request"
    THEN JOB_QUEUE_NAME ELSE REPLY_QUEUE_NAME

Places ==
    CopiesWaiting(JOB_QUEUE_NAME) + CopiesWaiting(REPLY_QUEUE_NAME)
    + Cardinality(Holders)
    + (IF watch.done # "no" THEN 1 ELSE 0)

C17_JobConservation ==
    /\ Places = (IF WasEnqueued THEN 1 ELSE 0)
    /\ \A q \in QueueNames : CopiesWaiting(q) > 0 => q = HomeQueue
    /\ \A w \in Holders : /\ Len(inflight[w]) = 1
                          /\ pc[w] \in {"processing", "handler"}
                          /\ (inflight[w][1].raw[3] = "pull_request")
                             <=> (inflight[w][1].queue_name = JOB_QUEUE_NAME)

C17_Witness ==
    /\ failed
    /\ watch.calls = 2
    /\ watch.first = "raise"
    /\ watch.queue = REPLY_QUEUE_NAME
    /\ CopiesWaiting(REPLY_QUEUE_NAME) = 1
    /\ \E w \in Workers : /\ pc[w] = "backoff"
                           /\ locals[w] # NoJob
                           /\ locals[w][1].id = watch.id
    /\ \E w \in Workers : /\ inflight[w] # NoJob
                           /\ inflight[w][1].id # watch.id

(***************************************************************************)
(* C18.  A worker holds at most one job at a time: it pops only while it   *)
(* holds none, and holds the popped job until its handler has returned or  *)
(* raised or the job was discarded; it holds nothing while it is blocked   *)
(* on the queues or asleep.                                                *)
(***************************************************************************)
C18_OneJobAtATime ==
    \A w \in Workers :
        /\ Len(inflight[w]) <= 1
        /\ inflight[w] # NoJob => pc[w] \in {"processing", "handler"}
        /\ pc[w] = "processing" => /\ Len(inflight[w]) = 1
                                   /\ locals[w] # NoJob
                                   /\ locals[w][1].id = inflight[w][1].id

C18_Witness ==
    \E w \in Workers :
        /\ pc[w] = "processing"
        /\ inflight[w][1].id = 2
        /\ watch.id = 1
        /\ watch.done = "completed"
        /\ watch.failer = w
        /\ queues[inflight[w][1].queue_name] # <<>>

(***************************************************************************)
(* C19.  Dispatcher state machine: the worker enters the backoff sleep if  *)
(* and only if the iteration failed; in a failed iteration the record is   *)
(* back on its queue before the sleep begins; nothing is popped during the *)
(* sleep; and after a completed or discarded job the worker blocks on the  *)
(* queues again without a backoff.                                         *)
(***************************************************************************)
C19_DispatcherStateMachine ==
    [][\A w \in Workers :
          /\ (pc[w] # "backoff" /\ pc'[w] = "backoff") => pc[w] = "handler"
          /\ LeavesHandler(w)
             => /\ pc'[w] = "backoff"
                /\ inflight[w] # NoJob
                   => PushedLeft(queues[inflight[w][1].queue_name],
                                 queues'[inflight[w][1].queue_name],
                                 inflight[w][1].id, inflight[w][1].raw)
          /\ pc[w] = "backoff"
             => /\ pc'[w] \in {"backoff", "blocked"}
                /\ inflight'[w] = NoJob
          /\ (LeavesTry(w) /\ failed' = failed /\ pc'[w] # "handler")
             => pc'[w] = "blocked"
          /\ (LeavesTry(w) /\ pc'[w] = "handler") => failed']_vars

====
